---- MODULE Spec2Model ----
(***************************************************************************)
(* Model of pve-guest-exporter.py: the credential manager (authenticate),  *)
(* the per-category TTL caches, the swap probe rotation, the one-time      *)
(* error reporter and the /pve scrape handler.                             *)
(*                                                                         *)
(* Every handler thread is a small program counter machine.  A step runs   *)
(* from one blocking upstream request to the next: the code between two    *)
(* requests of one thread is atomic, except the read-modify-write of the   *)
(* rotation index, which is split into its loads and its store, and the    *)
(* valid_until test of authenticate, which is a step of its own before     *)
(* the renewal, since neither is protected by a lock.                      *)
(***************************************************************************)
EXTENDS Integers, Sequences, FiniteSets, TLC

\* ---------------------------------------------------------------- constants
CONFIG_CACHE_TTL == 600
DISK_USAGE_CACHE_TTL == 30
STORAGE_CACHE_TTL == 60
CEPH_CACHE_TTL == 30
AUTH_TTL == 3600

\* ------------------------------------------------------------------- bounds
MaxTicks == 2          \* times the clock advances in one run
MaxRunning == 5        \* longest running-guest list of the rotation runs
MaxScrapes == 1        \* scrapes a handler thread serves in one run

Threads == {"h1", "h2"}
NodeName == "pve"

VARIABLES
    \* process-wide state of the exporter
    now,                    \* time.time()
    valid_until,            \* _auth_cache["valid_until"]
    session_auth,           \* credential carried by the shared session
    _config_cache, _disk_usage_cache, _storage_cache, _ceph_cache,
    _swap_data_cache, _swap_rotation_index,
    _logged_errors,
    _error_lock,            \* the thread inside "with _error_lock", or "free"
    \* environment
    creds,                  \* the credential configuration read at start-up
    deltas,                 \* amounts by which the clock may advance
    ticks,                  \* advances of the clock so far
    focus,                  \* the category a run of lookups exercises
    listing,                \* guests returned by /cluster/resources
    \* handler threads
    pc, caller, arg, current_time,
    guest_status, running_vms, vms_to_check, rot_i, rot_tmp,
    todo, config_data, all_metrics, ret, resp, calls, served,
    \* history
    look,                   \* the cached lookup a sequential test made last
    last,                   \* per cache key, the lookup it completed before
    reported,               \* per error key, reports since the last success
    err_hist,               \* per error key, the results of the reporter
                            \* calls a test made on it, in order
    scrape_hist,            \* per thread, how authenticate() and the bulk
                            \* listing of its scrape ended
    sel_log,                \* batches selected by the rotations of a test
    idx_log                 \* the rotation index at the start and after
                            \* each rotation of a test

shared == <<valid_until, session_auth, _config_cache, _disk_usage_cache,
            _storage_cache, _ceph_cache, _swap_data_cache,
            _swap_rotation_index, _logged_errors, _error_lock>>
environment == <<creds, deltas, listing, focus>>
locals == <<pc, caller, arg, current_time, guest_status, running_vms,
            vms_to_check, rot_i, rot_tmp, todo, config_data, all_metrics,
            ret, resp, calls, served>>
history == <<look, last, reported, err_hist, scrape_hist, sel_log, idx_log>>
vars == <<now, ticks, shared, environment, locals, history>>

\* ------------------------------------------------------------------ helpers
Min(a, b) == IF a < b THEN a ELSE b
Max(a, b) == IF a > b THEN a ELSE b
Put(d, k, v) == (k :> v) @@ d                 \* d[k] = v on a Python dict
Entry(data, ts) == [data |-> data, timestamp |-> ts]
SetTo(f, t, v) == [f EXCEPT ![t] = v]

\* ------------------------------------------------------------ cache keys
ConfigKey(vmid, guest_type) ==
    NodeName \o ":" \o guest_type \o ":" \o ToString(vmid)
DiskKey(vmid) == NodeName \o ":" \o ToString(vmid) \o ":disk"
SwapKey(vmid) == NodeName \o ":" \o ToString(vmid) \o ":swap"

\* ------------------------------------------------------------- error keys
ConfigErr(vmid) == "config_api_error:" \o NodeName \o ":" \o ToString(vmid)
DiskAgentErr(vmid) == "disk_agent_error:" \o NodeName \o ":" \o ToString(vmid)
DiskApiErr(vmid) == "disk_api_error:" \o NodeName \o ":" \o ToString(vmid)
DiskFormatErr(vmid) == "disk_format_error:" \o NodeName \o ":" \o ToString(vmid)
StorageErr == "storage_api_error"
CephErr == "ceph_api_error"
HostErr == "host_api_error:" \o NodeName

\* ------------------------------------------------------------ upstream data
\* what the API serves changes with time: a payload carries the instant it
\* was served at, so that a stale value differs from a fresh one
Payload == "p@" \o ToString(now)
SwapReading == "s@" \o ToString(now)

\* ------------------------------------------------------------ return values
ConfigZero == "ostype=unknown,cpus=0"   \* {"ostype": "unknown", "cpus": 0}
None == "None"
EmptyMetrics == "[]"
NoArg == [vmid |-> 0, type |-> "none"]
NoLook == [cat |-> "none", key |-> "none", at |-> 0, had |-> FALSE,
           old |-> None, fetched |-> FALSE, ok |-> FALSE, val |-> None,
           prev |-> [at |-> 0, fetched |-> FALSE, ok |-> FALSE, some |-> FALSE],
           done |-> FALSE]

NoScrape == [auth |-> "pending", bulk |-> "pending"]

\* ---------------------------------------------------------- error reporter
\* "with _error_lock:" is entered by one thread at a time
LockFree_Ignore(lock) == TRUE
LockFree(lock) == lock = "free"
\* a step that runs a whole call of log_error_once or clear_error_log takes
\* the lock and gives it back
Locked == LockFree(_error_lock) /\ UNCHANGED _error_lock

\* log_error_once: the value returned, and the set it leaves behind
LogEmits_Always(errors, error_key) == TRUE
LogEmits(errors, error_key) == error_key \notin errors
LogErrorOnce_Forget(errors, error_key) == errors
LogErrorOnce(errors, error_key) == errors \cup {error_key}
\* clear_error_log
ClearErrorLog(errors, error_key) == errors \ {error_key}

\* history: since the operation of a key last succeeded, the messages printed
\* for the key (shown, counted up to 2) and whether a report was kept silent
\* (muted, 0 or 1)
NoReports == [shown |-> 0, muted |-> 0]
RepIn(rep, k) == IF k \in DOMAIN rep THEN rep[k] ELSE NoReports
Rep(k) == RepIn(reported, k)
Emitted(rep, errors, k) ==
    IF LogEmits(errors, k)
    THEN Put(rep, k, [RepIn(rep, k) EXCEPT !.shown = Min(2, @ + 1)])
    ELSE Put(rep, k, [RepIn(rep, k) EXCEPT !.muted = Min(1, @ + 1)])
Succeeded(rep, ks) ==
    [k \in DOMAIN rep \cup ks |-> IF k \in ks THEN NoReports ELSE rep[k]]

\* ------------------------------------------------- returning to the caller
rotLocals == <<guest_status, running_vms, vms_to_check, rot_i, rot_tmp>>
rotHist == <<sel_log, idx_log, err_hist, scrape_hist>>
otherHist == <<look, last, reported, err_hist, sel_log, idx_log>>
caches == <<_config_cache, _disk_usage_cache, _storage_cache, _ceph_cache,
            _swap_data_cache>>
authState == <<valid_until, session_auth>>

IsRunning_Any(g) == TRUE
IsRunning(g) == g.status = "running"
GuestSample(g, config, disk_usage) ==
    [kind |-> "guest", vmid |-> g.vmid, status |-> g.status,
     config |-> config, swap |-> g.swap, data |-> disk_usage]
MetricLines(kind, lines) ==
    [kind |-> kind, vmid |-> 0, status |-> "", config |-> "", swap |-> "",
     data |-> lines]
\* all_metrics.extend(lines): an empty list adds nothing
Extend(metrics, kind, lines) ==
    IF lines = "[]" THEN metrics ELSE Append(metrics, MetricLines(kind, lines))

Ctl(t, npc, narg, ntodo, ncfg, nmet, nret, nresp) ==
    /\ pc' = SetTo(pc, t, npc)
    /\ arg' = SetTo(arg, t, narg)
    /\ todo' = SetTo(todo, t, ntodo)
    /\ config_data' = SetTo(config_data, t, ncfg)
    /\ all_metrics' = SetTo(all_metrics, t, nmet)
    /\ ret' = SetTo(ret, t, nret)
    /\ resp' = SetTo(resp, t, nresp)
ctl == <<pc, arg, todo, config_data, all_metrics, ret, resp>>

\* a function called on its own returns to the idle caller
Back(t, v) ==
    Ctl(t, "idle", arg[t], todo[t], config_data[t], all_metrics[t], v, resp[t])
Goto(t, npc) ==
    Ctl(t, npc, arg[t], todo[t], config_data[t], all_metrics[t], ret[t], resp[t])

\* pve_metrics: the for loop moves to the next guest, or on to storage
NextGuest(t, gs, rest, nmet, v) ==
    IF rest = <<>>
    THEN Ctl(t, "storage", NoArg, <<>>, config_data[t], nmet, v, resp[t])
    ELSE Ctl(t, "config", [vmid |-> Head(rest), type |-> gs[Head(rest)].type],
             rest, config_data[t], nmet, v, resp[t])

\* pve_metrics, after authenticate(): a false result ends the scrape with 500
AfterAuth_Proceed(ok) == "bulk"
AfterAuth(ok) == IF ok THEN "bulk" ELSE "done"
AuthStatus(ok, status) == IF ok THEN status ELSE 500
RetAuth(t, ok) ==
    LET v == IF ok THEN "True" ELSE "False" IN
    IF caller[t] = "unit" THEN Back(t, v) /\ UNCHANGED scrape_hist
    ELSE /\ Ctl(t, AfterAuth(ok), arg[t], todo[t], config_data[t],
                all_metrics[t], v, AuthStatus(ok, resp[t]))
         /\ scrape_hist' = [scrape_hist EXCEPT ![t].auth = v]

\* pve_metrics, after get_realtime_guest_status(): gs is the dict returned,
\* order its keys in insertion order
RetGuests(t, gs, order) ==
    LET v == IF order = <<>> THEN "{}" ELSE "guest_status" IN
    IF caller[t] = "unit" THEN Back(t, v)
    ELSE NextGuest(t, gs, order, all_metrics[t], v)

\* pve_metrics, after get_vm_config_cached(): the disk usage is looked up for
\* a running qemu guest only
RetConfig_Fatal(t, v) ==
    IF caller[t] = "unit" THEN Back(t, v)
    ELSE Ctl(t, "done", NoArg, <<>>, config_data[t], <<>>, v, 500)
RetConfig(t, v) ==
    LET g == guest_status[t][arg[t].vmid] IN
    IF caller[t] = "unit" THEN Back(t, v)
    ELSE IF g.type = "qemu" /\ IsRunning(g)
    THEN Ctl(t, "disk", arg[t], todo[t], v, all_metrics[t], v, resp[t])
    ELSE /\ NextGuest(t, guest_status[t], Tail(todo[t]),
                      Append(all_metrics[t], GuestSample(g, v, None)), v)

RetDisk(t, v) ==
    LET g == guest_status[t][arg[t].vmid] IN
    IF caller[t] = "unit" THEN Back(t, v)
    ELSE NextGuest(t, guest_status[t], Tail(todo[t]),
                   Append(all_metrics[t], GuestSample(g, config_data[t], v)), v)

RetStorage(t, v) ==
    IF caller[t] = "unit" THEN Back(t, v)
    ELSE Ctl(t, "ceph", arg[t], todo[t], config_data[t],
             Extend(all_metrics[t], "storage", v), v, resp[t])

RetCeph(t, v) ==
    IF caller[t] = "unit" THEN Back(t, v)
    ELSE Ctl(t, "host", arg[t], todo[t], config_data[t],
             Extend(all_metrics[t], "ceph", v), v, resp[t])

\* pve_metrics returns the 200 response after the host metrics
RetHost(t, v) ==
    IF caller[t] = "unit" THEN Back(t, v)
    ELSE Ctl(t, "done", arg[t], todo[t], config_data[t],
             Extend(all_metrics[t], "host", v), v, 200)

\* ---------------------------------------------------------- tiered caches
\* "if key in cache: data, timestamp = cache[key];
\*  if current_time - timestamp < TTL: return data"
Fresh_Inverted(cache, key, t_now, ttl) ==
    key \in DOMAIN cache /\ cache[key].timestamp - t_now > ttl
Fresh(cache, key, t_now, ttl) ==
    key \in DOMAIN cache /\ t_now - cache[key].timestamp < ttl

Last(key) ==
    IF key \in DOMAIN last THEN last[key]
    ELSE [at |-> 0, fetched |-> FALSE, ok |-> FALSE, some |-> FALSE]

\* the lookup history is kept for a test that calls from one thread
Alone(t) == caller[t] = "unit" /\ \A u \in Threads \ {t} : pc[u] = "off"

\* history of a lookup that starts: the entry it found, if any
Started(t, cat, cache, key) ==
    IF ~Alone(t) THEN UNCHANGED <<look, last>> ELSE
    /\ look' = SetTo(look, t,
          [cat |-> cat, key |-> key, at |-> now, had |-> key \in DOMAIN cache,
           old |-> IF key \in DOMAIN cache THEN cache[key].data ELSE None,
           fetched |-> TRUE, ok |-> FALSE, val |-> None, prev |-> Last(key),
           done |-> FALSE])
    /\ UNCHANGED last

\* history of a lookup that returns v
Finished(t, cat, cache, key, at, fetched, ok, v) ==
    IF ~Alone(t) THEN UNCHANGED <<look, last>> ELSE
    /\ look' = SetTo(look, t,
          [cat |-> cat, key |-> key, at |-> at,
           had |-> IF fetched THEN look[t].had ELSE key \in DOMAIN cache,
           old |-> IF fetched THEN look[t].old
                   ELSE IF key \in DOMAIN cache THEN cache[key].data ELSE None,
           fetched |-> fetched, ok |-> ok, val |-> v, prev |-> Last(key),
           done |-> TRUE])
    /\ last' = Put(last, key,
                   [at |-> at, fetched |-> fetched, ok |-> ok, some |-> TRUE])

Request(t, endpoint) == calls' = SetTo(calls, t, Append(calls[t], endpoint))

\* ---- get_vm_config_cached
ConfigOutcomes == {"ok", "http_error", "exception"}

ConfigBegin(t) ==
    LET key == ConfigKey(arg[t].vmid, arg[t].type) IN
    /\ pc[t] = "config"
    /\ current_time' = SetTo(current_time, t, now)
    /\ IF Fresh(_config_cache, key, now, CONFIG_CACHE_TTL)
       THEN /\ RetConfig(t, _config_cache[key].data)
            /\ Finished(t, "config", _config_cache, key, now, FALSE, FALSE,
                        _config_cache[key].data)
            /\ UNCHANGED calls
       ELSE /\ Goto(t, "config_wait")
            /\ Started(t, "config", _config_cache, key)
            /\ Request(t, "config:" \o ToString(arg[t].vmid))
    /\ UNCHANGED <<now, ticks, shared, environment, caller, rotLocals, served,
                   reported, rotHist>>

\* a failed fetch stores nothing; a successful one stores the result
ConfigStore(cache, key, outcome, result, ts) ==
    IF outcome = "ok" THEN Put(cache, key, Entry(result, ts)) ELSE cache

ConfigResp(t, outcome, payload) ==
    LET key == ConfigKey(arg[t].vmid, arg[t].type)
        err == ConfigErr(arg[t].vmid)
        v == IF outcome = "ok" THEN payload ELSE ConfigZero IN
    /\ pc[t] = "config_wait"
    /\ Locked
    /\ _config_cache' = ConfigStore(_config_cache, key, outcome, payload,
                                    current_time[t])
    /\ IF outcome = "ok"
       THEN /\ _logged_errors' = ClearErrorLog(_logged_errors, err)
            /\ reported' = Succeeded(reported, {err})
       ELSE /\ _logged_errors' = LogErrorOnce(_logged_errors, err)
            /\ reported' = Emitted(reported, _logged_errors, err)
    /\ RetConfig(t, v)
    /\ Finished(t, "config", _config_cache, key, current_time[t], TRUE,
                outcome = "ok", v)
    /\ UNCHANGED <<now, ticks, authState, _disk_usage_cache, _storage_cache,
                   _ceph_cache, _swap_data_cache, _swap_rotation_index,
                   environment, caller, current_time, rotLocals, calls, served,
                   rotHist>>

\* ---- get_guest_disk_usage_cached
\* ok: a list under data.result; agent_error: data.error; bad_format:
\* data.result is no list; malformed: no data, or neither error nor result;
\* http_error: a non-OK status; exception: the request or the parsing raised
DiskOutcomes == {"ok", "agent_error", "bad_format", "malformed", "http_error",
                 "exception"}

DiskBegin(t) ==
    LET key == DiskKey(arg[t].vmid) IN
    /\ pc[t] = "disk"
    /\ IF arg[t].type # "qemu"
       THEN /\ RetDisk(t, None)
            /\ UNCHANGED <<current_time, calls, look, last>>
       ELSE /\ current_time' = SetTo(current_time, t, now)
            /\ IF Fresh(_disk_usage_cache, key, now, DISK_USAGE_CACHE_TTL)
               THEN /\ RetDisk(t, _disk_usage_cache[key].data)
                    /\ Finished(t, "disk", _disk_usage_cache, key, now, FALSE,
                                FALSE, _disk_usage_cache[key].data)
                    /\ UNCHANGED calls
               ELSE /\ Goto(t, "disk_wait")
                    /\ Started(t, "disk", _disk_usage_cache, key)
                    /\ Request(t, "disk:" \o ToString(arg[t].vmid))
    /\ UNCHANGED <<now, ticks, shared, environment, caller, rotLocals, served,
                   reported, rotHist>>

\* every path that got an answer, or none, stores an entry: None on failure
DiskStore(cache, key, outcome, result, ts) ==
    Put(cache, key, Entry(IF outcome = "ok" THEN result ELSE None, ts))

\* the keys a disk answer reports; a non-OK status and a payload without
\* data, error or result report nothing
DiskLogged(outcome, vmid) ==
    CASE outcome = "agent_error" -> {DiskAgentErr(vmid)}
      [] outcome = "bad_format" -> {DiskFormatErr(vmid)}
      [] outcome = "exception" -> {DiskApiErr(vmid)}
      [] OTHER -> {}

DiskResp(t, outcome, payload) ==
    LET vmid == arg[t].vmid
        key == DiskKey(vmid)
        v == IF outcome = "ok" THEN payload ELSE None IN
    /\ pc[t] = "disk_wait"
    /\ IF outcome = "ok" \/ DiskLogged(outcome, vmid) # {} THEN Locked
       ELSE UNCHANGED _error_lock
    /\ _disk_usage_cache' = DiskStore(_disk_usage_cache, key, outcome, payload,
                                      current_time[t])
    /\ IF outcome = "ok"
       THEN /\ _logged_errors' =
                  ClearErrorLog(ClearErrorLog(_logged_errors, DiskAgentErr(vmid)),
                                DiskApiErr(vmid))
            /\ reported' = Succeeded(reported,
                  {DiskAgentErr(vmid), DiskApiErr(vmid), DiskFormatErr(vmid)})
       ELSE IF DiskLogged(outcome, vmid) = {}
       THEN UNCHANGED <<_logged_errors, reported>>
       ELSE LET err == CHOOSE k \in DiskLogged(outcome, vmid) : TRUE IN
            /\ _logged_errors' = LogErrorOnce(_logged_errors, err)
            /\ reported' = Emitted(reported, _logged_errors, err)
    /\ RetDisk(t, v)
    /\ Finished(t, "disk", _disk_usage_cache, key, current_time[t], TRUE,
                outcome = "ok", v)
    /\ UNCHANGED <<now, ticks, authState, _config_cache, _storage_cache, _ceph_cache,
                   _swap_data_cache, _swap_rotation_index, environment, caller,
                   current_time, rotLocals, calls, served, rotHist>>

\* ---- get_storage_metrics_cached, get_ceph_metrics_cached,
\* ---- get_host_resources_realtime
ApiOutcomes == {"ok", "http_error", "exception"}

\* the metrics list is stored after the try block, filled or not
MetricsStore(cache, key, metrics, ts) == Put(cache, key, Entry(metrics, ts))
MetricsOf(outcome, payload) == IF outcome = "ok" THEN payload ELSE EmptyMetrics

StorageBegin(t) ==
    /\ pc[t] = "storage"
    /\ current_time' = SetTo(current_time, t, now)
    /\ IF Fresh(_storage_cache, "storage", now, STORAGE_CACHE_TTL)
       THEN /\ RetStorage(t, _storage_cache["storage"].data)
            /\ Finished(t, "storage", _storage_cache, "storage", now, FALSE,
                        FALSE, _storage_cache["storage"].data)
            /\ UNCHANGED calls
       ELSE /\ Goto(t, "storage_wait")
            /\ Started(t, "storage", _storage_cache, "storage")
            /\ Request(t, "storage")
    /\ UNCHANGED <<now, ticks, shared, environment, caller, rotLocals, served,
                   reported, rotHist>>

StorageResp(t, outcome, payload) ==
    LET v == MetricsOf(outcome, payload) IN
    /\ pc[t] = "storage_wait"
    /\ Locked
    /\ _storage_cache' = MetricsStore(_storage_cache, "storage", v,
                                      current_time[t])
    /\ IF outcome = "ok"
       THEN /\ _logged_errors' = ClearErrorLog(_logged_errors, StorageErr)
            /\ reported' = Succeeded(reported, {StorageErr})
       ELSE /\ _logged_errors' = LogErrorOnce(_logged_errors, StorageErr)
            /\ reported' = Emitted(reported, _logged_errors, StorageErr)
    /\ RetStorage(t, v)
    /\ Finished(t, "storage", _storage_cache, "storage", current_time[t], TRUE,
                outcome = "ok", v)
    /\ UNCHANGED <<now, ticks, authState, _config_cache, _disk_usage_cache,
                   _ceph_cache, _swap_data_cache, _swap_rotation_index,
                   environment, caller, current_time, rotLocals, calls, served,
                   rotHist>>

CephBegin(t) ==
    /\ pc[t] = "ceph"
    /\ current_time' = SetTo(current_time, t, now)
    /\ IF Fresh(_ceph_cache, "ceph", now, CEPH_CACHE_TTL)
       THEN /\ RetCeph(t, _ceph_cache["ceph"].data)
            /\ Finished(t, "ceph", _ceph_cache, "ceph", now, FALSE, FALSE,
                        _ceph_cache["ceph"].data)
            /\ UNCHANGED calls
       ELSE /\ Goto(t, "ceph_wait")
            /\ Started(t, "ceph", _ceph_cache, "ceph")
            /\ Request(t, "ceph")
    /\ UNCHANGED <<now, ticks, shared, environment, caller, rotLocals, served,
                   reported, rotHist>>

CephResp(t, outcome, payload) ==
    LET v == MetricsOf(outcome, payload) IN
    /\ pc[t] = "ceph_wait"
    /\ Locked
    /\ _ceph_cache' = MetricsStore(_ceph_cache, "ceph", v, current_time[t])
    /\ IF outcome = "ok"
       THEN /\ _logged_errors' = ClearErrorLog(_logged_errors, CephErr)
            /\ reported' = Succeeded(reported, {CephErr})
       ELSE /\ _logged_errors' = LogErrorOnce(_logged_errors, CephErr)
            /\ reported' = Emitted(reported, _logged_errors, CephErr)
    /\ RetCeph(t, v)
    /\ Finished(t, "ceph", _ceph_cache, "ceph", current_time[t], TRUE,
                outcome = "ok", v)
    /\ UNCHANGED <<now, ticks, authState, _config_cache, _disk_usage_cache,
                   _storage_cache, _swap_data_cache, _swap_rotation_index,
                   environment, caller, current_time, rotLocals, calls, served,
                   rotHist>>

HostBegin(t) ==
    /\ pc[t] = "host"
    /\ Goto(t, "host_wait")
    /\ Request(t, "host")
    /\ UNCHANGED <<now, ticks, shared, environment, caller, current_time, rotLocals,
                   served, history>>

HostResp(t, outcome, payload) ==
    /\ pc[t] = "host_wait"
    /\ Locked
    /\ IF outcome = "ok"
       THEN /\ _logged_errors' = ClearErrorLog(_logged_errors, HostErr)
            /\ reported' = Succeeded(reported, {HostErr})
       ELSE /\ _logged_errors' = LogErrorOnce(_logged_errors, HostErr)
            /\ reported' = Emitted(reported, _logged_errors, HostErr)
    /\ RetHost(t, MetricsOf(outcome, payload))
    /\ UNCHANGED <<now, ticks, authState, caches, _swap_rotation_index, environment,
                   caller, current_time, rotLocals, calls, served, look, last,
                   rotHist>>

\* ------------------------------------------------------ credential manager
\* parse_pve_api_token on a string given as its sequence of characters:
\* token.split('!', 1) must give two parts and rest.split('=') exactly two
NoToken == <<<<>>, <<>>, <<>>>>
Positions(str, ch) == {i \in 1..Len(str) : str[i] = ch}
SetMin(S) == CHOOSE x \in S : \A y \in S : x <= y
parse_pve_api_token_NoCheck(token) == <<token, token, token>>
parse_pve_api_token(token) ==
    IF token = <<>> \/ Positions(token, "!") = {} THEN NoToken
    ELSE LET b == SetMin(Positions(token, "!"))
             rest == SubSeq(token, b + 1, Len(token))
             eqs == Positions(rest, "=")
         IN IF Cardinality(eqs) # 1 THEN NoToken
            ELSE LET e == SetMin(eqs) IN
                 <<SubSeq(token, 1, b - 1), SubSeq(rest, 1, e - 1),
                   SubSeq(rest, e + 1, Len(rest))>>

Truthy(str) == str # <<>>
\* lines 134-139: the split credentials, else the parsed combined token
TokenTriple(c) ==
    IF ~(Truthy(c.user) /\ Truthy(c.token_name) /\ Truthy(c.token_value))
       /\ Truthy(c.api_token)
    THEN parse_pve_api_token(c.api_token)
    ELSE <<c.user, c.token_name, c.token_value>>
HasToken(c) ==
    Truthy(TokenTriple(c)[1]) /\ Truthy(TokenTriple(c)[2])
    /\ Truthy(TokenTriple(c)[3])
HasPassword(c) == Truthy(c.pass) /\ Truthy(c.user)

NoAuth == [kind |-> "none", user |-> <<>>, name |-> <<>>, value |-> <<>>]
TokenAuth(tr) == [kind |-> "token", user |-> tr[1], name |-> tr[2], value |-> tr[3]]
CookieAuth(c) == [kind |-> "cookie", user |-> c.user, name |-> <<>>, value |-> <<>>]

\* lines 128-131: the validity check
AuthValid(t_now, until) == t_now < until

AuthCheck(t) ==
    /\ pc[t] = "authenticate"
    /\ current_time' = SetTo(current_time, t, now)
    /\ IF AuthValid(now, valid_until) THEN RetAuth(t, TRUE)
       ELSE Goto(t, "auth_renew") /\ UNCHANGED scrape_hist
    /\ UNCHANGED <<now, ticks, shared, environment, caller, rotLocals, calls, served,
                   otherHist>>

\* lines 141-144: the token header is applied, no request is made
AuthToken(t) ==
    /\ pc[t] = "auth_renew"
    /\ HasToken(creds)
    /\ session_auth' = TokenAuth(TokenTriple(creds))
    /\ valid_until' = current_time[t] + AUTH_TTL
    /\ RetAuth(t, TRUE)
    /\ UNCHANGED <<now, ticks, caches, _swap_rotation_index, _logged_errors,
                   _error_lock,
                   environment, caller, current_time, rotLocals, calls, served,
                   otherHist>>

\* lines 147-153: the login request is sent
AuthLoginSend(t) ==
    /\ pc[t] = "auth_renew"
    /\ ~HasToken(creds)
    /\ HasPassword(creds)
    /\ Goto(t, "auth_login")
    /\ UNCHANGED scrape_hist
    /\ UNCHANGED <<now, ticks, shared, environment, caller, current_time, rotLocals,
                   calls, served, otherHist>>

\* line 163: no credential is configured
AuthNoCreds(t) ==
    /\ pc[t] = "auth_renew"
    /\ ~HasToken(creds)
    /\ ~HasPassword(creds)
    /\ RetAuth(t, FALSE)
    /\ UNCHANGED <<now, ticks, shared, environment, caller, current_time, rotLocals,
                   calls, served, otherHist>>

\* lines 154-163: the answer to the login request
\* line 158 runs only inside "if resp.ok"
LoginUntil_Always(until, t_call, ok) == t_call + AUTH_TTL
LoginUntil(until, t_call, ok) == IF ok THEN t_call + AUTH_TTL ELSE until
AuthLoginResp(t, outcome) ==
    /\ pc[t] = "auth_login"
    /\ session_auth' = IF outcome = "ok" THEN CookieAuth(creds) ELSE session_auth
    /\ valid_until' = LoginUntil(valid_until, current_time[t], outcome = "ok")
    /\ RetAuth(t, outcome = "ok")
    /\ UNCHANGED <<now, ticks, caches, _swap_rotation_index, _logged_errors,
                   _error_lock,
                   environment, caller, current_time, rotLocals, calls, served,
                   otherHist>>

\* ------------------------------------------------------------ probe rotator
BulkSwap == "bulk"               \* the swap reading of the bulk listing

\* get_realtime_guest_status, step 1: the dict built from the listing, the
\* running guests in listing order, and the keys in insertion order
GuestDict(lst) ==
    [v \in {lst[i].vmid : i \in 1..Len(lst)} |->
        LET r == lst[CHOOSE i \in 1..Len(lst) : lst[i].vmid = v] IN
        [vmid |-> v, type |-> r.type, status |-> r.status, swap |-> BulkSwap]]
IsRunningRow(r) == r.status = "running"
RunningOf(lst) ==
    LET sel == SelectSeq(lst, IsRunningRow) IN
    [i \in 1..Len(sel) |-> sel[i].vmid]
OrderOf(lst) == [i \in 1..Len(lst) |-> lst[i].vmid]

\* step 3, line 472: "if running_vms:"
HasRunning_Always(running) == TRUE
HasRunning(running) == running # <<>>

\* step 2: a running guest takes its cached swap reading, however old
MergeCached_WithTTL(gs, cache) ==
    [v \in DOMAIN gs |->
        IF IsRunning(gs[v]) /\ SwapKey(v) \in DOMAIN cache
           /\ now - cache[SwapKey(v)].timestamp < 60
        THEN [gs[v] EXCEPT !.swap = cache[SwapKey(v)].data]
        ELSE gs[v]]
MergeCached(gs, cache) ==
    [v \in DOMAIN gs |->
        IF IsRunning(gs[v]) /\ SwapKey(v) \in DOMAIN cache
        THEN [gs[v] EXCEPT !.swap = cache[SwapKey(v)].data]
        ELSE gs[v]]

BulkSend(t) ==
    /\ pc[t] = "bulk"
    /\ Goto(t, "bulk_wait")
    /\ Request(t, "resources")
    /\ UNCHANGED <<now, ticks, shared, environment, caller, current_time, rotLocals,
                   served, history>>

\* a non-OK status or an exception returns {}
BulkFailed(t) ==
    /\ guest_status' = SetTo(guest_status, t, <<>>)
    /\ UNCHANGED <<running_vms, vms_to_check, rot_i, rot_tmp, current_time>>
    /\ RetGuests(t, <<>>, <<>>)

BulkResp(t, outcome) ==
    LET gs == MergeCached(GuestDict(listing), _swap_data_cache)
        running == RunningOf(listing) IN
    /\ pc[t] = "bulk_wait"
    /\ scrape_hist' = IF caller[t] = "unit" THEN scrape_hist
                      ELSE [scrape_hist EXCEPT
                               ![t].bulk = IF outcome = "ok" THEN "ok" ELSE "failed"]
    /\ IF outcome # "ok" THEN BulkFailed(t)
       ELSE /\ guest_status' = SetTo(guest_status, t, gs)
            /\ running_vms' = SetTo(running_vms, t, running)
            /\ current_time' = SetTo(current_time, t, now)
            /\ vms_to_check' = SetTo(vms_to_check, t, <<>>)
            /\ rot_i' = SetTo(rot_i, t, 0)
            /\ UNCHANGED rot_tmp
            /\ IF ~HasRunning(running) THEN RetGuests(t, gs, OrderOf(listing))
               ELSE Ctl(t, "rot_pick", arg[t], OrderOf(listing), config_data[t],
                        all_metrics[t], ret[t], resp[t])
    /\ UNCHANGED <<now, ticks, shared, environment, caller, calls, served,
                   otherHist>>

\* lines 475-478, one iteration of "for i in range(2)"
PickIndex_Backwards(idx, i, n) == (idx + n - i) % n
PickIndex_NoOffset(idx, i, n) == idx % n
PickIndex(idx, i, n) == (idx + i) % n
RotPick(t) ==
    LET vm_index == PickIndex(_swap_rotation_index, rot_i[t], Len(running_vms[t])) IN
    /\ pc[t] = "rot_pick"
    /\ vms_to_check' = SetTo(vms_to_check, t,
                             Append(vms_to_check[t], running_vms[t][vm_index + 1]))
    /\ rot_i' = SetTo(rot_i, t, rot_i[t] + 1)
    /\ Goto(t, IF rot_i[t] + 1 = 2 THEN "rot_load" ELSE "rot_pick")
    /\ UNCHANGED <<now, ticks, shared, environment, caller, current_time,
                   guest_status, running_vms, rot_tmp, calls, served, history>>

\* line 481 reads the index ...
RotLoad(t) ==
    /\ pc[t] = "rot_load"
    /\ rot_tmp' = SetTo(rot_tmp, t, _swap_rotation_index)
    /\ Goto(t, "rot_store")
    /\ UNCHANGED <<now, ticks, shared, environment, caller, current_time,
                   guest_status, running_vms, vms_to_check, rot_i, calls,
                   served, history>>

\* ... and writes it back advanced; the first probe request follows
Advance_ByOne(idx, n) == (idx + 1) % Max(n, 1)
Advance(idx, n) == (idx + 2) % Max(n, 1)
RotStore(t) ==
    LET idx == Advance(rot_tmp[t], Len(running_vms[t])) IN
    /\ pc[t] = "rot_store"
    /\ _swap_rotation_index' = idx
    /\ IF caller[t] = "unit"
       THEN /\ sel_log' = Append(sel_log, vms_to_check[t])
            /\ idx_log' = Append(idx_log, idx)
       ELSE UNCHANGED <<sel_log, idx_log>>
    /\ rot_i' = SetTo(rot_i, t, 1)
    /\ Goto(t, "probe_wait")
    /\ Request(t, "probe:" \o ToString(vms_to_check[t][1]))
    /\ UNCHANGED <<now, ticks, authState, caches, _logged_errors, _error_lock,
                   environment, caller,
                   current_time, guest_status, running_vms, vms_to_check,
                   rot_tmp, served, look, last, reported, err_hist, scrape_hist>>

\* lines 495-506: an OK answer updates the record and the cache; any other
\* answer leaves both alone
ProbeStore_AnyAnswer(cache, key, outcome, reading, ts) ==
    Put(cache, key, Entry(reading, ts))
ProbeStore(cache, key, outcome, reading, ts) ==
    IF outcome = "ok" THEN Put(cache, key, Entry(reading, ts)) ELSE cache
ProbeResp(t, outcome, reading) ==
    LET vmid == vms_to_check[t][rot_i[t]]
        gs == IF outcome = "ok"
              THEN [guest_status[t] EXCEPT ![vmid].swap = reading]
              ELSE guest_status[t] IN
    /\ pc[t] = "probe_wait"
    /\ guest_status' = SetTo(guest_status, t, gs)
    /\ _swap_data_cache' = ProbeStore(_swap_data_cache, SwapKey(vmid), outcome,
                                      reading, current_time[t])
    /\ IF rot_i[t] < Len(vms_to_check[t])
       THEN /\ rot_i' = SetTo(rot_i, t, rot_i[t] + 1)
            /\ Request(t, "probe:" \o ToString(vms_to_check[t][rot_i[t] + 1]))
            /\ UNCHANGED ctl
       ELSE /\ RetGuests(t, gs, todo[t])
            /\ UNCHANGED <<rot_i, calls>>
    /\ UNCHANGED <<now, ticks, authState, _config_cache, _disk_usage_cache,
                   _storage_cache, _ceph_cache, _swap_rotation_index,
                   _logged_errors, _error_lock, environment, caller,
                   current_time,
                   running_vms, vms_to_check, rot_tmp, served, history>>

\* ------------------------------------------------------------- the clock
Tick ==
    /\ ticks < MaxTicks
    /\ ticks' = ticks + 1
    /\ \E d \in deltas : now' = now + d
    /\ UNCHANGED <<shared, environment, locals, history>>

\* ------------------------------------------------------------ pve_metrics
\* a request to /pve starts on a free handler thread
ScrapeStart(t) ==
    /\ pc[t] \in {"idle", "done"}
    /\ served[t] < MaxScrapes
    /\ served' = SetTo(served, t, served[t] + 1)
    /\ caller' = SetTo(caller, t, "pve_metrics")
    /\ calls' = SetTo(calls, t, <<>>)
    /\ Ctl(t, "authenticate", NoArg, <<>>, ConfigZero, <<>>, None, 0)
    /\ scrape_hist' = SetTo(scrape_hist, t, NoScrape)
    /\ UNCHANGED <<now, ticks, shared, environment, current_time, rotLocals,
                   otherHist>>

\* a function called on its own, from a test
Call(t, fn, a) ==
    /\ pc[t] = "idle"
    /\ caller' = SetTo(caller, t, "unit")
    /\ calls' = SetTo(calls, t, <<>>)
    /\ Ctl(t, fn, a, todo[t], config_data[t], all_metrics[t], None, resp[t])
    /\ UNCHANGED <<now, ticks, shared, environment, current_time, rotLocals, served,
                   history>>

\* ------------------------------------------------------------ initial state
\* the state after the module is loaded: empty caches, no credential, index 0
TokenCreds == [user |-> <<"u">>, token_name |-> <<"n">>, token_value |-> <<"v">>,
               api_token |-> <<>>, pass |-> <<>>]

InitWith(active, c, d, lst, f, idx) ==
    /\ focus = f
    /\ now = 1
    /\ ticks = 0
    /\ valid_until = 0
    /\ session_auth = NoAuth
    /\ _config_cache = <<>>
    /\ _disk_usage_cache = <<>>
    /\ _storage_cache = <<>>
    /\ _ceph_cache = <<>>
    /\ _swap_data_cache = <<>>
    /\ _swap_rotation_index = idx
    /\ _logged_errors = {}
    /\ _error_lock = "free"
    /\ creds = c
    /\ deltas = d
    /\ listing = lst
    /\ pc = [t \in Threads |-> IF t \in active THEN "idle" ELSE "off"]
    /\ caller = [t \in Threads |-> "unit"]
    /\ arg = [t \in Threads |-> NoArg]
    /\ current_time = [t \in Threads |-> 0]
    /\ guest_status = [t \in Threads |-> <<>>]
    /\ running_vms = [t \in Threads |-> <<>>]
    /\ vms_to_check = [t \in Threads |-> <<>>]
    /\ rot_i = [t \in Threads |-> 0]
    /\ rot_tmp = [t \in Threads |-> 0]
    /\ todo = [t \in Threads |-> <<>>]
    /\ config_data = [t \in Threads |-> ConfigZero]
    /\ all_metrics = [t \in Threads |-> <<>>]
    /\ ret = [t \in Threads |-> None]
    /\ resp = [t \in Threads |-> 0]
    /\ calls = [t \in Threads |-> <<>>]
    /\ served = [t \in Threads |-> 0]
    /\ look = [t \in Threads |-> NoLook]
    /\ last = <<>>
    /\ reported = <<>>
    /\ err_hist = <<>>
    /\ scrape_hist = [t \in Threads |-> NoScrape]
    /\ sel_log = <<>>
    /\ idx_log = <<idx>>

\* ------------------------------------------- the caches, looked up in turn
\* one caller looks up the four categories in any order while time passes
CacheArgs == {[vmid |-> 1, type |-> "qemu"], [vmid |-> 2, type |-> "lxc"]}
CacheDeltas == {20, 600}

Categories == {"config", "disk", "storage", "ceph"}

InitCache == \E f \in Categories : InitWith({"h1"}, TokenCreds, CacheDeltas, <<>>, f, 0)

CallConfig(t) == focus = "config" /\ \E a \in CacheArgs : Call(t, "config", a)
CallDisk(t) == focus = "disk" /\ \E a \in CacheArgs : Call(t, "disk", a)
CallStorage(t) == focus = "storage" /\ Call(t, "storage", NoArg)
CallCeph(t) == focus = "ceph" /\ Call(t, "ceph", NoArg)

NextCache ==
    \/ Tick
    \/ \E t \in Threads :
        \/ CallConfig(t)
        \/ CallDisk(t)
        \/ CallStorage(t)
        \/ CallCeph(t)
        \/ ConfigBegin(t)
        \/ \E o \in ConfigOutcomes : ConfigResp(t, o, Payload)
        \/ DiskBegin(t)
        \/ \E o \in DiskOutcomes : DiskResp(t, o, Payload)
        \/ StorageBegin(t)
        \/ \E o \in ApiOutcomes : StorageResp(t, o, Payload)
        \/ CephBegin(t)
        \/ \E o \in ApiOutcomes : CephResp(t, o, Payload)

SpecCache == InitCache /\ [][NextCache]_vars

\* ------------------------------------------- the fetches, made concurrently
\* two callers fetch one category at the same time, in any order, while time
\* passes: every interleaving two overlapping scrapes can produce on the
\* fetches of that category, and more
Fetched == Categories \cup {"host"}

LookupDeltas == {CONFIG_CACHE_TTL}
InitLookups ==
    \E f \in Fetched : InitWith(Threads, TokenCreds, LookupDeltas, <<>>, f, 0)

CallHost(t) == focus = "host" /\ Call(t, "host", NoArg)

NextLookups ==
    \/ NextCache
    \/ \E t \in Threads :
        \/ CallHost(t)
        \/ HostBegin(t)
        \/ \E o \in ApiOutcomes : HostResp(t, o, Payload)

SpecLookups == InitLookups /\ [][NextLookups]_vars

\* ------------------------------------------------ the probe rotator alone
\* get_realtime_guest_status is called again and again on a stable listing of
\* n running guests; the index starts at any value an earlier, longer listing
\* can have left behind
RunningListing(n) ==
    [i \in 1..n |-> [vmid |-> i, type |-> IF i % 2 = 1 THEN "qemu" ELSE "lxc",
                     status |-> "running"]]

InitRot ==
    \E n \in 1..MaxRunning, idx \in 0..(MaxRunning - 1) :
        InitWith({"h1"}, TokenCreds, {}, RunningListing(n), "none", idx)

CallGuests(t) ==
    /\ Len(idx_log) <= MaxRunning + 1
    /\ Call(t, "bulk", NoArg)

NextRot ==
    \E t \in Threads :
        \/ CallGuests(t)
        \/ BulkSend(t)
        \/ \E o \in ApiOutcomes : BulkResp(t, o)
        \/ RotPick(t)
        \/ RotLoad(t)
        \/ RotStore(t)
        \/ \E o \in ApiOutcomes : ProbeResp(t, o, SwapReading)

SpecRot == InitRot /\ [][NextRot]_vars

\* ---------------------------------------------- the error reporter alone
\* tests call log_error_once and clear_error_log on a few keys, in any order
MaxErrCalls == 4
ErrKeys == {ConfigErr(1), DiskAgentErr(1), StorageErr}
HistOf(k) == IF k \in DOMAIN err_hist THEN err_hist[k] ELSE <<>>

UnitLogErrorOnce(t, k) ==
    LET r == IF LogEmits(_logged_errors, k) THEN "True" ELSE "False" IN
    /\ pc[t] = "idle"
    /\ Locked
    /\ Len(HistOf(k)) < MaxErrCalls
    /\ _logged_errors' = LogErrorOnce(_logged_errors, k)
    /\ reported' = Emitted(reported, _logged_errors, k)
    /\ err_hist' = Put(err_hist, k, Append(HistOf(k), r))
    /\ caller' = SetTo(caller, t, "unit")
    /\ Back(t, r)
    /\ UNCHANGED <<now, ticks, authState, caches, _swap_rotation_index,
                   environment, current_time, rotLocals, calls, served, look,
                   last, scrape_hist, sel_log, idx_log>>

UnitClearErrorLog(t, k) ==
    /\ pc[t] = "idle"
    /\ Locked
    /\ Len(HistOf(k)) < MaxErrCalls
    /\ _logged_errors' = ClearErrorLog(_logged_errors, k)
    /\ reported' = Succeeded(reported, {k})
    /\ err_hist' = Put(err_hist, k, Append(HistOf(k), "clear"))
    /\ caller' = SetTo(caller, t, "unit")
    /\ Back(t, None)
    /\ UNCHANGED <<now, ticks, authState, caches, _swap_rotation_index,
                   environment, current_time, rotLocals, calls, served, look,
                   last, scrape_hist, sel_log, idx_log>>

InitErr == InitWith(Threads, TokenCreds, {}, <<>>, "none", 0)

NextErr ==
    \E t \in Threads, k \in ErrKeys :
        \/ UnitLogErrorOnce(t, k)
        \/ UnitClearErrorLog(t, k)

SpecErr == InitErr /\ [][NextErr]_vars

\* ------------------------------------------ authenticate(), called at once
\* two callers run authenticate() while an hour may pass
CredConfigs ==
    { TokenCreds,
      [user |-> <<>>, token_name |-> <<>>, token_value |-> <<>>,
       api_token |-> <<"u", "@", "r", "!", "n", "=", "v">>, pass |-> <<>>],
      [user |-> <<"u">>, token_name |-> <<>>, token_value |-> <<>>,
       api_token |-> <<"u", "n", "=", "v">>, pass |-> <<"w">>],
      [user |-> <<>>, token_name |-> <<>>, token_value |-> <<>>,
       api_token |-> <<"u", "!", "n", "v">>, pass |-> <<>>],
      [user |-> <<"u">>, token_name |-> <<>>, token_value |-> <<>>,
       api_token |-> <<"u", "!", "n", "v">>, pass |-> <<"w">>],
      [user |-> <<>>, token_name |-> <<>>, token_value |-> <<>>,
       api_token |-> <<"u", "n", "=", "v">>, pass |-> <<>>],
      [user |-> <<"u">>, token_name |-> <<>>, token_value |-> <<>>,
       api_token |-> <<>>, pass |-> <<"w">>],
      [user |-> <<>>, token_name |-> <<>>, token_value |-> <<>>,
       api_token |-> <<>>, pass |-> <<>>] }

InitAuth == \E c \in CredConfigs : InitWith(Threads, c, {AUTH_TTL}, <<>>, "none", 0)

CallAuth(t) == Call(t, "authenticate", NoArg)

NextAuth ==
    \/ Tick
    \/ \E t \in Threads :
        \/ CallAuth(t)
        \/ AuthCheck(t)
        \/ AuthToken(t)
        \/ AuthLoginSend(t)
        \/ AuthNoCreds(t)
        \/ \E o \in ApiOutcomes : AuthLoginResp(t, o)

SpecAuth == InitAuth /\ [][NextAuth]_vars

\* ----------------------------------------------------- the scrape handler
\* requests to /pve are served one after the other while up to an hour
\* passes between two steps; the host runs one qemu guest and one stopped
\* container
ScrapeListing ==
    <<[vmid |-> 1, type |-> "qemu", status |-> "running"],
      [vmid |-> 2, type |-> "lxc", status |-> "stopped"]>>
ScrapeCreds ==
    { c \in CredConfigs : c.api_token = <<>> }

InitScrape ==
    \E c \in ScrapeCreds : InitWith({"h1"}, c, {AUTH_TTL}, ScrapeListing, "all", 0)

NextScrape ==
    \/ Tick
    \/ \E t \in Threads :
        \/ ScrapeStart(t)
        \/ AuthCheck(t)
        \/ AuthToken(t)
        \/ AuthLoginSend(t)
        \/ AuthNoCreds(t)
        \/ \E o \in ApiOutcomes : AuthLoginResp(t, o)
        \/ BulkSend(t)
        \/ \E o \in ApiOutcomes : BulkResp(t, o)
        \/ RotPick(t)
        \/ RotLoad(t)
        \/ RotStore(t)
        \/ \E o \in ApiOutcomes : ProbeResp(t, o, SwapReading)
        \/ ConfigBegin(t)
        \/ \E o \in ConfigOutcomes : ConfigResp(t, o, Payload)
        \/ DiskBegin(t)
        \/ \E o \in DiskOutcomes : DiskResp(t, o, Payload)
        \/ StorageBegin(t)
        \/ \E o \in ApiOutcomes : StorageResp(t, o, Payload)
        \/ CephBegin(t)
        \/ \E o \in ApiOutcomes : CephResp(t, o, Payload)
        \/ HostBegin(t)
        \/ \E o \in ApiOutcomes : HostResp(t, o, Payload)

SpecScrape == InitScrape /\ [][NextScrape]_vars

TTLOf(cat) ==
    CASE cat = "config" -> CONFIG_CACHE_TTL
      [] cat = "disk" -> DISK_USAGE_CACHE_TTL
      [] cat = "storage" -> STORAGE_CACHE_TTL
      [] cat = "ceph" -> CEPH_CACHE_TTL
      [] OTHER -> 0

\* the lookup t has just returned from follows, less than the TTL later, a
\* lookup of the same key that made a request
SecondWithinTTL(t) ==
    /\ look[t].done
    /\ look[t].prev.some
    /\ look[t].prev.fetched
    /\ look[t].at - look[t].prev.at < TTLOf(look[t].cat)

\* C1, as claimed: in every category, the second of two lookups of a key made
\* less than the TTL apart makes no request, whether the request of the first
\* succeeded or failed (one upstream call in total).
C1_AnyOutcome ==
    \A t \in Threads : SecondWithinTTL(t) => ~look[t].fetched

\* C1, amended: the second lookup makes no request when the first one's
\* request succeeded, and in the disk, storage and ceph categories also when
\* it failed; after a failed config request the second lookup requests again.
C1_OneCallWithinTTL ==
    \A t \in Threads :
        /\ SecondWithinTTL(t) /\ (look[t].prev.ok \/ look[t].cat # "config")
              => ~look[t].fetched
        /\ SecondWithinTTL(t) /\ ~look[t].prev.ok /\ look[t].cat = "config"
              => look[t].fetched

C1_Witness ==
    \E t \in Threads :
        /\ SecondWithinTTL(t)
        /\ look[t].at > look[t].prev.at
        /\ look[t].cat = "disk"
        /\ ~look[t].prev.ok
        /\ ~look[t].fetched
        /\ calls[t] = <<>>

\* C2: a lookup that finds an entry older than its TTL and whose request fails
\* returns the value of that entry; it returns the zero value of the category
\* only when the key had no entry.
ZeroOf(cat) ==
    CASE cat = "config" -> ConfigZero
      [] cat = "disk" -> None
      [] OTHER -> EmptyMetrics
C2_StaleOnFailure ==
    \A t \in Threads :
        look[t].done /\ look[t].fetched /\ ~look[t].ok
            => look[t].val = (IF look[t].had THEN look[t].old
                              ELSE ZeroOf(look[t].cat))

\* ---- rotation
Range(seq) == {seq[i] : i \in 1..Len(seq)}
RunningNow == RunningOf(listing)
RunningCount == Len(RunningNow)
Batches(i, k) == UNION {Range(sel_log[j]) : j \in i..(i + k - 1)}
CeilHalf(n) == (n + 1) \div 2

\* C3: on a stable listing of n >= 1 running guests, from any starting index,
\* every ceil(n/2) consecutive scrapes select every running guest for a fresh
\* probe at least once.
C3_CoverInCeilHalf ==
    \A i \in 1..Len(sel_log) :
        i + CeilHalf(RunningCount) - 1 <= Len(sel_log)
            => Batches(i, CeilHalf(RunningCount)) = Range(RunningNow)

C3_Witness ==
    /\ RunningCount = 5
    /\ idx_log[1] = 3
    /\ Len(sel_log) >= 4
    /\ Batches(2, 3) = Range(RunningNow)

\* C4, as claimed: on a stable listing of n running guests the index (taken
\* to start inside the list) is back at its starting value after ceil(n/2)
\* scrapes, and after no smaller positive number of scrapes.
C4_PeriodCeilHalf ==
    idx_log[1] < RunningCount /\ Len(idx_log) > CeilHalf(RunningCount)
        => /\ idx_log[CeilHalf(RunningCount) + 1] = idx_log[1]
           /\ \A k \in 1..(CeilHalf(RunningCount) - 1) : idx_log[k + 1] # idx_log[1]

\* C4, amended: an index that starts inside the list (0 <= c < n) is back at
\* its starting value after k scrapes exactly when k is a multiple of n/2 for
\* an even n, and of n for an odd n (for n = 5 the period is 5).
Period(n) == IF n % 2 = 0 THEN n \div 2 ELSE n
C4_PeriodOfIndex ==
    idx_log[1] < RunningCount
        => \A k \in 1..(Len(idx_log) - 1) :
              (idx_log[k + 1] = idx_log[1]) <=> (k % Period(RunningCount) = 0)

C4_Witness ==
    /\ RunningCount = 5
    /\ Len(idx_log) = 6
    /\ idx_log[1] = 2
    /\ idx_log[4] # 2
    /\ idx_log[6] = 2

\* ---- error reporter
\* C5: log_error_once(k, m) returns true and records k when k is not in the
\* set, and returns false, printing nothing, on every repeat while k stays in
\* the set; after clear_error_log(k) the next call returns true again,
\* whatever calls are made on other keys in between.
C5_ReportOnce ==
    \A k \in ErrKeys :
        LET h == HistOf(k) IN
        /\ \A i \in 1..Len(h) :
              h[i] # "clear" => ((h[i] = "True") <=> (i = 1 \/ h[i - 1] = "clear"))
        /\ (k \in _logged_errors) <=> (h # <<>> /\ h[Len(h)] # "clear")
        /\ Rep(k).shown = (IF k \in _logged_errors THEN 1 ELSE 0)

C5_Witness ==
    \E k \in ErrKeys :
        /\ HistOf(k) = <<"True", "False", "clear", "True">>
        /\ \A k2 \in ErrKeys \ {k} : Len(HistOf(k2)) >= 2
        /\ k \in _logged_errors

\* ---- credential manager
\* C6: when two handlers run authenticate() at once on an expired credential,
\* one renewal attempt is made: a caller applies the token header or sends
\* the login request only while the credential is still expired and no other
\* caller's login is in flight.
C6_OneRenewal ==
    [][\A t \in Threads :
          (AuthToken(t) \/ AuthLoginSend(t))
             => /\ ~AuthValid(now, valid_until)
                /\ \A u \in Threads \ {t} : pc[u] # "auth_login"]_vars

\* ---- scrape handler
\* C7: in a scrape whose authenticate() returned false no upstream request is
\* made, the response is the 500 error without samples, and the step that ends
\* the scrape leaves the caches and the rotation index as they were.
C7_AuthFailureStops ==
    /\ [](\A t \in Threads :
            scrape_hist[t].auth = "False"
               => /\ pc[t] = "done"
                  /\ resp[t] = 500
                  /\ calls[t] = <<>>
                  /\ all_metrics[t] = <<>>)
    /\ [][\A t \in Threads :
            scrape_hist'[t].auth = "False" /\ pc'[t] # pc[t]
               => UNCHANGED <<caches, _swap_rotation_index, _logged_errors>>]_vars

C7_Witness ==
    \E t \in Threads :
        /\ scrape_hist[t].auth = "False"
        /\ HasPassword(creds)
        /\ pc[t] = "done"
        /\ resp[t] = 500

\* C8: when the bulk listing request fails the scrape is aborted: no request
\* of a later stage is made and the response is not a success.
C8_AbortOnBulkFailure ==
    \A t \in Threads :
        scrape_hist[t].bulk = "failed"
            => /\ calls[t] = <<"resources">>
               /\ pc[t] = "done" => resp[t] # 200

\* C9: whenever a scrape sends an upstream request, the current time is
\* before valid-until.
C9_ValidAtEveryCall ==
    [][\A t \in Threads :
          Len(calls'[t]) > Len(calls[t]) => AuthValid(now, valid_until)]_vars

\* C10: no error key is printed twice without a successful completion of its
\* operation in between, also when the fetches of two scrapes overlap.
C10_NoRepeat ==
    \A k \in DOMAIN reported : reported[k].shown <= 1

C10_Witness ==
    \E k \in DOMAIN reported :
        /\ reported[k].shown = 1
        /\ reported[k].muted >= 1
        /\ \E t \in Threads : pc[t] \in {"config_wait", "disk_wait", "storage_wait",
                                        "ceph_wait", "host_wait"}

\* ---- error reporting of the fetches
\* the error keys a fetch of the guest in arg[t] can report
DiskErrKeys(vmid) == {DiskAgentErr(vmid), DiskApiErr(vmid), DiskFormatErr(vmid)}

\* C11: the step in which an operation completes successfully leaves none of
\* the error keys of that operation in the suppression set: config_api_error
\* after a config fetch, disk_agent_error, disk_api_error and
\* disk_format_error after a disk usage fetch, storage_api_error,
\* ceph_api_error and host_api_error after theirs.
C11_SuccessClears ==
    [][\A t \in Threads :
          /\ ConfigResp(t, "ok", Payload)
                => ConfigErr(arg[t].vmid) \notin _logged_errors'
          /\ DiskResp(t, "ok", Payload)
                => DiskErrKeys(arg[t].vmid) \cap _logged_errors' = {}
          /\ StorageResp(t, "ok", Payload) => StorageErr \notin _logged_errors'
          /\ CephResp(t, "ok", Payload) => CephErr \notin _logged_errors'
          /\ HostResp(t, "ok", Payload) => HostErr \notin _logged_errors']_vars

\* C12: the step in which a config fetch or a disk usage fetch fails, by an
\* exception, a non-OK status, a guest agent error or a malformed payload,
\* leaves an error key of that operation and guest in the suppression set.
C12_FailureReported ==
    [][\A t \in Threads :
          /\ \A o \in ConfigOutcomes \ {"ok"} :
                ConfigResp(t, o, Payload)
                   => ConfigErr(arg[t].vmid) \in _logged_errors'
          /\ \A o \in DiskOutcomes \ {"ok"} :
                DiskResp(t, o, Payload)
                   => DiskErrKeys(arg[t].vmid) \cap _logged_errors' # {}]_vars

\* ---- malformed combined token
\* PVE_API_TOKEN is set but lacks the '!' or the '=', and the split token
\* credentials are not all configured
Malformed(c) ==
    /\ Truthy(c.api_token)
    /\ Positions(c.api_token, "!") = {} \/ Positions(c.api_token, "=") = {}
    /\ ~(Truthy(c.user) /\ Truthy(c.token_name) /\ Truthy(c.token_value))

\* C13: with a malformed combined token and no split token credentials the
\* session never carries a token credential; authenticate(), past the
\* validity check, sends the password login when user and password are
\* configured, and otherwise returns false; neither step changes valid-until.
C13_MalformedToken ==
    /\ [](Malformed(creds) => session_auth.kind # "token")
    /\ [][\A t \in Threads :
            Malformed(creds) /\ pc[t] = "auth_renew" /\ pc'[t] # "auth_renew"
               => /\ UNCHANGED authState
                  /\ IF HasPassword(creds) THEN pc'[t] = "auth_login"
                     ELSE pc'[t] = "idle" /\ ret'[t] = "False"]_vars

C13_Witness ==
    \E t \in Threads :
        /\ Malformed(creds)
        /\ Positions(creds.api_token, "=") = {}
        /\ HasPassword(creds)
        /\ pc[t] = "idle"
        /\ ret[t] = "True"
        /\ session_auth.kind = "cookie"
        /\ valid_until = current_time[t] + AUTH_TTL

\* ---- the batch of one scrape
ProbeCalls(sel) == [i \in 1..Len(sel) |-> "probe:" \o ToString(sel[i])]
\* get_realtime_guest_status has returned its dict to the test on thread t
Returned(t) == caller[t] = "unit" /\ pc[t] = "idle" /\ ret[t] = "guest_status"

\* C14: with n >= 1 running guests and the index at c when the scrape
\* starts, the guests selected are those at positions c mod n and (c+1) mod n
\* of the running list, in this order, the probe requests of the scrape go to
\* these two positions and to no other guest (never more than two requests),
\* and the scrape leaves the index at (c+2) mod n.
C14_BatchAtCursor ==
    /\ \A j \in 1..Len(sel_log) :
          LET c == idx_log[j]
              n == RunningCount IN
          /\ sel_log[j] = <<RunningNow[(c % n) + 1], RunningNow[((c + 1) % n) + 1]>>
          /\ idx_log[j + 1] = (c + 2) % n
    /\ \A t \in Threads :
          /\ Len(calls[t]) <= 3
          /\ Returned(t)
                => /\ sel_log # <<>>
                   /\ calls[t] = <<"resources">> \o ProbeCalls(sel_log[Len(sel_log)])
                   /\ _swap_rotation_index = idx_log[Len(idx_log)]

C14_Witness ==
    \E t \in Threads :
        /\ Returned(t)
        /\ RunningCount = 3
        /\ Len(idx_log) >= 3
        /\ idx_log[Len(idx_log) - 1] = 2
        /\ calls[t] = <<"resources", "probe:3", "probe:1">>
        /\ _swap_rotation_index = 1

\* ------------------------------------ the probe rotator while guests stop
\* get_realtime_guest_status is called again and again while hours pass and
\* running guests stop, down to a listing with no running guest
MaxSwapRuns == 3       \* rotations made in one run
\* three running guests: one is left out of every batch of two
SwapListing == RunningListing(3)

GuestStops(i) ==
    /\ i \in 1..Len(listing)
    /\ listing[i].status = "running"
    /\ \A t \in Threads : pc[t] \in {"idle", "off"}
    /\ listing' = [listing EXCEPT ![i].status = "stopped"]
    /\ UNCHANGED <<now, ticks, shared, creds, deltas, focus, locals, history>>

CallSwap(t) ==
    /\ Len(sel_log) < MaxSwapRuns
    /\ Call(t, "bulk", NoArg)

InitSwap ==
    InitWith({"h1"}, TokenCreds, {AUTH_TTL}, SwapListing, "none", 0)

NextSwap ==
    \/ Tick
    \/ \E i \in 1..Len(SwapListing) : GuestStops(i)
    \/ \E t \in Threads :
        \/ CallSwap(t)
        \/ BulkSend(t)
        \/ \E o \in ApiOutcomes : BulkResp(t, o)
        \/ RotPick(t)
        \/ RotLoad(t)
        \/ RotStore(t)
        \/ \E o \in ApiOutcomes : ProbeResp(t, o, SwapReading)

SpecSwap == InitSwap /\ [][NextSwap]_vars

\* the swap reading the probe cache holds for a guest, or that of the listing
CachedOrBulk(v) ==
    IF SwapKey(v) \in DOMAIN _swap_data_cache
    THEN _swap_data_cache[SwapKey(v)].data ELSE BulkSwap

\* C15: in the dict a scrape returns, a running guest that was not selected
\* for a probe carries its cached swap reading when the probe cache has an
\* entry for it, whatever the age of the entry, and the reading of the bulk
\* listing when it has none.
C15_CachedWhenNotProbed ==
    \A t \in Threads :
        Returned(t)
            => \A v \in Range(running_vms[t]) \ Range(vms_to_check[t]) :
                  guest_status[t][v].swap = CachedOrBulk(v)

C15_Witness ==
    \E t \in Threads :
        /\ Returned(t)
        /\ \E v \in Range(running_vms[t]) \ Range(vms_to_check[t]) :
              /\ SwapKey(v) \in DOMAIN _swap_data_cache
              /\ current_time[t] - _swap_data_cache[SwapKey(v)].timestamp
                    >= 2 * AUTH_TTL
              /\ guest_status[t][v].swap = "s@1"
        /\ \E w \in Range(vms_to_check[t]) : guest_status[t][w].swap # "s@1"

\* C16: the step that ends the bulk listing of a scrape with no running
\* guest returns the dict at once: it leaves the rotation index and the
\* probe cache as they were, and the scrape has sent no probe request.
C16_NoRunningNoRotation ==
    [][\A t \in Threads :
          /\ pc[t] = "bulk_wait"
          /\ pc'[t] # "bulk_wait"
          /\ guest_status'[t] # <<>>
          /\ RunningOf(listing) = <<>>
          => /\ pc'[t] \in {"idle", "config"}
             /\ UNCHANGED <<_swap_rotation_index, _swap_data_cache>>
             /\ calls'[t] = <<"resources">>]_vars

C16_Witness ==
    \E t \in Threads :
        /\ Returned(t)
        /\ running_vms[t] = <<>>
        /\ calls[t] = <<"resources">>
        /\ _swap_rotation_index # 0
        /\ _swap_data_cache # <<>>

\* C17: in the dict a scrape returns, a guest that is not running was not
\* selected for a probe and carries the swap reading of the bulk listing,
\* also when the probe cache holds an entry for it from an earlier scrape.
C17_StoppedNotProbed ==
    \A t \in Threads :
        Returned(t)
            => \A v \in DOMAIN guest_status[t] :
                  guest_status[t][v].status # "running"
                     => /\ v \notin Range(vms_to_check[t])
                        /\ guest_status[t][v].swap = BulkSwap

C17_Witness ==
    \E t \in Threads :
        /\ Returned(t)
        /\ vms_to_check[t] # <<>>
        /\ \E v \in DOMAIN guest_status[t] :
              /\ guest_status[t][v].status = "stopped"
              /\ SwapKey(v) \in DOMAIN _swap_data_cache
              /\ guest_status[t][v].swap = BulkSwap

\* ---- what a failed fetch stores
\* C18: the step in which a fetch fails leaves the cache of its category as
\* it was, value and stored-at timestamp of every key: only a successful
\* fetch creates or overwrites an entry.
C18_FailureKeepsEntry ==
    [][\A t \in Threads :
          /\ \A o \in ConfigOutcomes \ {"ok"} :
                ConfigResp(t, o, Payload) => UNCHANGED _config_cache
          /\ \A o \in DiskOutcomes \ {"ok"} :
                DiskResp(t, o, Payload) => UNCHANGED _disk_usage_cache
          /\ \A o \in ApiOutcomes \ {"ok"} :
                /\ StorageResp(t, o, Payload) => UNCHANGED _storage_cache
                /\ CephResp(t, o, Payload) => UNCHANGED _ceph_cache]_vars

\* ------------------------------------------ the probe rotator, overlapping
\* two handler threads run get_realtime_guest_status at the same time on a
\* stable listing of n running guests
MaxRaceRuns == 2       \* rotations after which no new call starts

CallRace(t) ==
    /\ Len(sel_log) < MaxRaceRuns
    /\ Call(t, "bulk", NoArg)

InitRace ==
    \E n \in 1..MaxRunning, idx \in 0..(MaxRunning - 1) :
        InitWith(Threads, TokenCreds, {}, RunningListing(n), "none", idx)

NextRace ==
    \E t \in Threads :
        \/ CallRace(t)
        \/ BulkSend(t)
        \/ \E o \in ApiOutcomes : BulkResp(t, o)
        \/ RotPick(t)
        \/ RotLoad(t)
        \/ RotStore(t)
        \/ \E o \in ApiOutcomes : ProbeResp(t, o, SwapReading)

SpecRace == InitRace /\ [][NextRace]_vars

\* a scrape has selected its batch and has not returned yet
Selected(t) == pc[t] \in {"rot_load", "rot_store", "probe_wait"}
Quiet == \A t \in Threads : pc[t] \in {"idle", "off"}

\* C19: with a stable list of n >= 1 running guests and the index at c at
\* the start, once k >= 1 scrapes have rotated and all have returned the index is
\* (c + 2k) mod n, however the scrapes overlapped; and two scrapes that are
\* in progress at the same time have not selected the same batch.
C19_NoLostUpdate ==
    /\ Quiet /\ sel_log # <<>>
          => _swap_rotation_index
                = (idx_log[1] + 2 * Len(sel_log)) % RunningCount
    /\ \A t \in Threads : \A u \in Threads \ {t} :
          Selected(t) /\ Selected(u) => vms_to_check[t] # vms_to_check[u]

\* ---- requests of one scrape
NoDuplicates(seq) ==
    \A i \in 1..Len(seq) : \A j \in 1..Len(seq) : i # j => seq[i] # seq[j]

\* C20: the requests a scrape has sent so far are pairwise different: no
\* endpoint is requested twice for the same guest within one scrape, whether
\* the first request succeeded or failed.
C20_OncePerScrape ==
    \A t \in Threads : caller[t] = "pve_metrics" => NoDuplicates(calls[t])

\* ---- a failed fetch for one guest
IsPrefix(a, b) == Len(a) <= Len(b) /\ SubSeq(b, 1, Len(a)) = a
SameButKey(c1, c2, key) ==
    \A k \in (DOMAIN c1 \cup DOMAIN c2) \ {key} :
        k \in DOMAIN c1 /\ k \in DOMAIN c2 /\ c1[k] = c2[k]
\* thread t, serving a scrape, gets a failure as the answer to the config or
\* the disk usage request for the guest in arg[t]
GuestFetchFails(t) ==
    /\ caller[t] = "pve_metrics"
    /\ \/ \E o \in ConfigOutcomes \ {"ok"} : ConfigResp(t, o, Payload)
       \/ \E o \in DiskOutcomes \ {"ok"} : DiskResp(t, o, Payload)

\* C21: a scrape that passed authentication ends with the 200 response
\* whatever its fetches answered; the step in which the config or disk usage
\* fetch of one guest fails lets the scrape go on to the next stage, keeps
\* the samples emitted so far and adds samples of that guest only, and leaves
\* alone the listing data of the scrape, the cache entries of every other
\* guest and the storage, ceph and probe caches.
C21_FailureIsolated ==
    /\ [](\A t \in Threads :
            scrape_hist[t].auth = "True" /\ pc[t] = "done" => resp[t] = 200)
    /\ [][\A t \in Threads :
            GuestFetchFails(t)
               => /\ pc'[t] \in {"config", "disk", "storage"}
                  /\ resp'[t] = resp[t]
                  /\ IsPrefix(all_metrics[t], all_metrics'[t])
                  /\ \A i \in (Len(all_metrics[t]) + 1)..Len(all_metrics'[t]) :
                        /\ all_metrics'[t][i].kind = "guest"
                        /\ all_metrics'[t][i].vmid = arg[t].vmid
                  /\ SameButKey(_config_cache, _config_cache',
                                ConfigKey(arg[t].vmid, arg[t].type))
                  /\ SameButKey(_disk_usage_cache, _disk_usage_cache',
                                DiskKey(arg[t].vmid))
                  /\ UNCHANGED <<_storage_cache, _ceph_cache, _swap_data_cache,
                                 _swap_rotation_index, guest_status>>]_vars

C21_Witness ==
    \E t \in Threads :
        /\ pc[t] = "done"
        /\ resp[t] = 200
        /\ Len(all_metrics[t]) = 5
        /\ all_metrics[t][1].vmid = 1
        /\ all_metrics[t][1].config = ConfigZero
        /\ all_metrics[t][2].vmid = 2
        /\ all_metrics[t][2].config # ConfigZero
        /\ all_metrics[t][3].kind = "storage"
        /\ all_metrics[t][5].kind = "host"

\* ---- a failed password login
PasswordOnly(c) == ~HasToken(c) /\ HasPassword(c)

\* C22: the step in which the password login fails (non-OK answer or
\* exception) makes authenticate() return false and leaves valid-until and
\* the session credential as they were; a call of authenticate() that finds
\* the credential still expired goes to the login request again; and the
\* step in which a login succeeds returns true and sets valid-until to the
\* time that call read at its start plus AUTH_TTL.
C22_LoginFailureNotCached ==
    [][\A t \in Threads :
          /\ (\E o \in ApiOutcomes \ {"ok"} : AuthLoginResp(t, o))
                => ret'[t] = "False" /\ UNCHANGED authState
          /\ AuthLoginResp(t, "ok")
                => /\ ret'[t] = "True"
                   /\ valid_until' = current_time[t] + AUTH_TTL
          /\ PasswordOnly(creds) /\ pc[t] = "authenticate" /\ pc'[t] # pc[t]
             /\ now >= valid_until
                => pc'[t] = "auth_renew"
          /\ PasswordOnly(creds) /\ pc[t] = "auth_renew" /\ pc'[t] # pc[t]
                => pc'[t] = "auth_login"]_vars

\* one caller's login has failed at time 1; a later call, an hour on, logged in
C22_Witness ==
    \E t \in Threads : \E u \in Threads \ {t} :
        /\ PasswordOnly(creds)
        /\ pc[u] = "idle" /\ ret[u] = "False" /\ current_time[u] = 1
        /\ pc[t] = "idle" /\ ret[t] = "True"
        /\ current_time[t] = 1 + AUTH_TTL
        /\ valid_until = 1 + 2 * AUTH_TTL
        /\ session_auth.kind = "cookie"

\* --------------------------------- log_error_once, statement by statement
\* two handler threads fetch the host metrics or the config of a guest at the
\* same time and both requests fail; the call of log_error_once that follows
\* is taken apart into entering the with block, the membership test, the
\* print and insert, and leaving the block
LoggedOps == {"host", "config"}
ErrKeyOf(op, t) == IF op = "host" THEN HostErr ELSE ConfigErr(arg[t].vmid)
LogCalls == {k \in DOMAIN err_hist : err_hist[k] # <<>>}

logFrame == <<now, ticks, authState, caches, _swap_rotation_index, environment,
              caller, arg, current_time, rotLocals, todo, config_data,
              all_metrics, ret, resp, calls, served, look, last, scrape_hist,
              sel_log, idx_log>>

\* lines 196-204, 550-558: the answer is a failure, log_error_once is called
FetchFails(t, op) ==
    /\ pc[t] = op \o "_wait"
    /\ pc' = SetTo(pc, t, op \o "_acquire")
    /\ UNCHANGED <<logFrame, _logged_errors, _error_lock, reported, err_hist>>

\* line 28: "with _error_lock:" blocks until the lock is free
LogAcquire(t, op) ==
    /\ pc[t] = op \o "_acquire"
    /\ LockFree(_error_lock)
    /\ _error_lock' = t
    /\ pc' = SetTo(pc, t, op \o "_test")
    /\ UNCHANGED <<logFrame, _logged_errors, reported, err_hist>>

\* line 29: "if error_key not in _logged_errors"; line 33: "return False"
LogTest(t, op) ==
    LET k == ErrKeyOf(op, t) IN
    /\ pc[t] = op \o "_test"
    /\ IF k \notin _logged_errors
       THEN /\ pc' = SetTo(pc, t, op \o "_add")
            /\ UNCHANGED <<reported, err_hist>>
       ELSE /\ pc' = SetTo(pc, t, op \o "_release")
            /\ reported' = Put(reported, k, [RepIn(reported, k) EXCEPT !.muted = 1])
            /\ err_hist' = Put(err_hist, k, Append(HistOf(k), "False"))
    /\ UNCHANGED <<logFrame, _logged_errors, _error_lock>>

\* lines 30-32: print, add, "return True"
LogAdd(t, op) ==
    LET k == ErrKeyOf(op, t) IN
    /\ pc[t] = op \o "_add"
    /\ _logged_errors' = LogErrorOnce(_logged_errors, k)
    /\ reported' = Put(reported, k,
                       [RepIn(reported, k) EXCEPT !.shown = Min(2, @ + 1)])
    /\ err_hist' = Put(err_hist, k, Append(HistOf(k), "True"))
    /\ pc' = SetTo(pc, t, op \o "_release")
    /\ UNCHANGED <<logFrame, _error_lock>>

\* the with block is left and the fetch function returns its zero value
LogRelease(t, op) ==
    /\ pc[t] = op \o "_release"
    /\ _error_lock' = "free"
    /\ IF op = "host" THEN RetHost(t, EmptyMetrics) ELSE RetConfig(t, ConfigZero)
    /\ UNCHANGED <<now, ticks, authState, caches, _swap_rotation_index,
                   _logged_errors, environment, caller, current_time, rotLocals,
                   calls, served, history>>

CallLogged(t, op) ==
    /\ Cardinality({u \in Threads : pc[u] # "idle"})
          + Len(HistOf(HostErr)) + Len(HistOf(ConfigErr(1))) < MaxErrCalls
    /\ IF op = "host" THEN Call(t, "host", NoArg)
       ELSE Call(t, "config", [vmid |-> 1, type |-> "qemu"])

InitLock == InitWith(Threads, TokenCreds, {}, <<>>, "none", 0)

NextLock ==
    \E t \in Threads :
        \/ HostBegin(t)
        \/ ConfigBegin(t)
        \/ \E op \in LoggedOps :
              \/ CallLogged(t, op)
              \/ FetchFails(t, op)
              \/ LogAcquire(t, op)
              \/ LogTest(t, op)
              \/ LogAdd(t, op)
              \/ LogRelease(t, op)

SpecLock == InitLock /\ [][NextLock]_vars

InWithBlock(t) ==
    \E op \in LoggedOps : pc[t] \in {op \o "_test", op \o "_add", op \o "_release"}
RequestInFlight(t) ==
    pc[t] \in {"auth_login", "bulk_wait", "probe_wait", "config_wait",
               "disk_wait", "storage_wait", "ceph_wait", "host_wait"}

\* C23: when the fetches of two overlapping scrapes fail on the same key
\* while it is not in the suppression set, the first call of log_error_once
\* to enter the with block emits and returns true and every other one returns
\* false; a thread is between the test and the end of the call exactly while
\* it holds the error lock, so one thread at a time, and the holder of the
\* lock has no upstream request in flight.
C23_OneEmits ==
    /\ \A k \in LogCalls :
          /\ err_hist[k][1] = "True"
          /\ \A i \in 2..Len(err_hist[k]) : err_hist[k][i] = "False"
    /\ \A t \in Threads :
          /\ InWithBlock(t) <=> _error_lock = t
          /\ _error_lock = t => ~RequestInFlight(t)

C23_Witness ==
    \E t \in Threads : \E u \in Threads \ {t} :
        /\ _error_lock = t
        /\ pc[t] = "config_release"
        /\ pc[u] = "config_acquire"
        /\ HistOf(ConfigErr(1)) = <<"True">>
        /\ ConfigErr(1) \in _logged_errors

\* ---- probes of one scrape
Count(seq, x) == Cardinality({i \in 1..Len(seq) : seq[i] = x})

\* C24: for every number n >= 1 of running guests, n = 1 included, the
\* requests one call of get_realtime_guest_status has sent hold at most one
\* probe of each guest.
C24_ProbedOnce ==
    \A t \in Threads : \A v \in Range(RunningNow) :
        Count(calls[t], "probe:" \o ToString(v)) <= 1

====
